---- MODULE Spec2Model ----
(***************************************************************************)
(* Model of run() of the set-secretmanager-secrets action: the parsing of  *)
(* the `secrets` input, the validation of the parsed entries and the       *)
(* sequential reconciliation of each entry against Secret Manager.         *)
(*                                                                         *)
(* A JavaScript string is a sequence of one-character strings, a Buffer a  *)
(* sequence of byte values.  Every remote call (every await) is one step.  *)
(***************************************************************************)
EXTENDS Integers, Sequences, FiniteSets, TLC

VARIABLES
  secrets,         \* core.getInput('secrets'): the raw input string
  secretsArray,    \* the parsed entries, [key, value]
  pc,              \* the await run() is suspended at / "start" / "done"
  idx,             \* position of `secret` in the for-of loop over secretsArray
  updatedSecrets,  \* the accumulating list of keys
  remote,          \* Secret Manager: secret id -> sequence of version payloads
  calls,           \* every client call issued so far, in order, with its outcome
  outputs,         \* the values passed to core.setOutput('updated_secrets', _)
  failures,        \* the messages passed to core.setFailed
  warnings         \* the messages passed to core.warning

vars == << secrets, secretsArray, pc, idx, updatedSecrets, remote, calls,
           outputs, failures, warnings >>

----------------------------------------------------------------------------
(* Bounds of the model *)

\* longest raw input of the exhaustive parsing specification
MaxLen == 5
\* most comma-separated segments of an input of the reconciliation specification
MaxSegments == 2

\* characters of the raw inputs
Alphabet == {"a", "b", "x", " ", "=", ","}

----------------------------------------------------------------------------
(* Strings *)

\* all strings over S of length at most n
StringsUpTo(S, n) == UNION {[1..m -> S] : m \in 0..n}

\* index of the first occurrence of character c in s, 0 when there is none
IndexOf(s, c) ==
  IF \E p \in 1..Len(s) : s[p] = c
    THEN CHOOSE p \in 1..Len(s) : s[p] = c /\ \A q \in 1..(p - 1) : s[q] # c
    ELSE 0

\* String.prototype.split(sep) for a one-character separator: every piece
RECURSIVE Split(_, _)
Split(s, sep) ==
  LET p == IndexOf(s, sep)
  IN  IF p = 0 THEN << s >>
      ELSE << SubSeq(s, 1, p - 1) >> \o Split(SubSeq(s, p + 1, Len(s)), sep)

IsWhiteSpace(c) == c = " "

RECURSIVE TrimStart(_)
TrimStart(s) ==
  IF Len(s) > 0 /\ IsWhiteSpace(s[1]) THEN TrimStart(Tail(s)) ELSE s

RECURSIVE TrimEnd(_)
TrimEnd(s) ==
  IF Len(s) > 0 /\ IsWhiteSpace(s[Len(s)])
    THEN TrimEnd(SubSeq(s, 1, Len(s) - 1)) ELSE s

\* String.prototype.trim
Trim(s) == TrimEnd(TrimStart(s))

\* s1 , s2 , ... joined with the separator character
RECURSIVE Join(_, _)
Join(segs, sep) ==
  IF Len(segs) = 0 THEN << >>
  ELSE IF Len(segs) = 1 THEN segs[1]
  ELSE segs[1] \o << sep >> \o Join(Tail(segs), sep)

----------------------------------------------------------------------------
(* Parsing of the secrets input *)

\* const [key, value] = item.split('='): the first two pieces of the split;
\* value is undefined, and replaced by '', when there is no second piece
ValuePiece(parts) ==
  IF Len(parts) >= 2 THEN parts[2] ELSE << >>

ParseItem(item) ==
  LET parts == Split(item, "=")
  IN  [key |-> Trim(parts[1]), value |-> Trim(ValuePiece(parts))]

\* nothing is filtered out
KeepEverything(item) == TRUE

\* the filter after the trim: item.length > 0
KeepItem(item) == Len(item) > 0

\* secrets.split(',').map((item) => item.trim())
TrimmedItems(input) ==
  LET items == Split(input, ",")
  IN  [n \in 1..Len(items) |-> Trim(items[n])]

\* secrets.split(',').map(trim).filter(length > 0).map(split on '=')
ParseSecrets(input) ==
  LET items == SelectSeq(TrimmedItems(input), KeepItem)
  IN  [n \in 1..Len(items) |-> ParseItem(items[n])]

\* only the first entry is validated
HasEmptyKeyInFirst(entries) == Len(entries) > 0 /\ entries[1].key = << >>

\* the validation loop: some entry has an empty key
HasEmptyKey(entries) == \E n \in 1..Len(entries) : entries[n].key = << >>

----------------------------------------------------------------------------
(* Buffers *)

\* the UTF-8 encoding of the characters of the inputs (all of them ASCII)
Utf8Byte(c) ==
  CASE c = "a" -> 97
    [] c = "b" -> 98
    [] c = "x" -> 120
    [] c = " " -> 32
    [] c = "=" -> 61
    [] c = "," -> 44

\* Buffer.from(value, 'utf8')
BufferFrom(s) == [n \in 1..Len(s) |-> Utf8Byte(s[n])]

Utf8Char(b) == CHOOSE c \in Alphabet : Utf8Byte(c) = b

\* buffer.toString('utf8')
ToStringUtf8(buf) == [n \in 1..Len(buf) |-> Utf8Char(buf[n])]

----------------------------------------------------------------------------
(* Secret Manager, as the client sees it *)

NOT_FOUND == 5

\* a version's payload: data may be missing from the response
Payload(buf) == [present |-> TRUE, data |-> buf]
NoPayload == [present |-> FALSE, data |-> << >>]

Succeeded == [ok |-> TRUE, code |-> 0, isError |-> FALSE]

\* a rejected call: the error's code and whether it is an instance of Error
Rejected(code, isError) == [ok |-> FALSE, code |-> code, isError |-> isError]

\* failures any call may meet whatever the state of the service: NOT_FOUND
\* (5) and UNAVAILABLE (14), as an Error or as a plain object
TransientFailures == {Rejected(c, e) : c \in {NOT_FOUND, 14}, e \in BOOLEAN}

SecretExistsIn(r, key) == key \in DOMAIN r

\* client.getSecret({ name })
GetSecretOutcomes(key) ==
  {IF SecretExistsIn(remote, key) THEN Succeeded ELSE Rejected(NOT_FOUND, TRUE)}
    \cup TransientFailures

\* client.createSecret({ parent, secretId, secret }): ALREADY_EXISTS is 6
CreateSecretOutcomes(key) ==
  {IF SecretExistsIn(remote, key) THEN Rejected(6, TRUE) ELSE Succeeded}
    \cup TransientFailures

\* client.addSecretVersion({ parent, payload })
AddSecretVersionOutcomes(key) ==
  {IF SecretExistsIn(remote, key) THEN Succeeded ELSE Rejected(NOT_FOUND, TRUE)}
    \cup TransientFailures

\* client.accessSecretVersion({ name: .../versions/latest })
AccessSecretVersionOutcomes(key) ==
  {IF SecretExistsIn(remote, key) /\ Len(remote[key]) > 0
     THEN Succeeded ELSE Rejected(NOT_FOUND, TRUE)}
    \cup TransientFailures

\* the service after a successful createSecret: the secret, without versions
WithSecret(r, key) ==
  [k \in DOMAIN r \cup {key} |-> IF k = key THEN << >> ELSE r[k]]

\* the service after a successful addSecretVersion
WithVersion(r, key, buf) ==
  [k \in DOMAIN r |-> IF k = key THEN Append(r[k], Payload(buf)) ELSE r[k]]

\* the payload of versions/latest
LatestPayload(r, key) == r[key][Len(r[key])]

\* one record per client call issued: the operation, the loop position and
\* key of the entry it was issued for, the payload it carried (add) or got
\* back (access), and the code it ended with (0: resolved)
Call(op, n, key, payload, res) ==
  [op |-> op, entry |-> n, key |-> key, payload |-> payload, code |-> res.code]

----------------------------------------------------------------------------
(* run() *)

\* the message of a core.setFailed call: its text, without the key and the
\* error's message, and the key it names (none for the validation failure)
Message(text, key) == [text |-> text, key |-> << key >>]
InvalidFormat ==
  [text |-> "Invalid secrets format: Found an entry with an empty key.",
   key |-> << >>]

secret == secretsArray[idx]

\* core.setFailed(msg); return
SetFailed(msg) ==
  /\ failures' = Append(failures, msg)
  /\ pc' = "done"
  /\ UNCHANGED << idx, outputs, updatedSecrets >>

\* the for-of loop takes the entry at position n of entries, or has none left
\* and core.setOutput('updated_secrets', updated) ends the run
NextSecret(entries, n, updated) ==
  /\ idx' = n
  /\ updatedSecrets' = updated
  /\ IF n <= Len(entries)
       THEN pc' = "getSecret" /\ UNCHANGED outputs
       ELSE pc' = "done" /\ outputs' = Append(outputs, updated)
  /\ UNCHANGED failures

\* the push is forgotten
PushKeyDropped == NextSecret(secretsArray, idx + 1, updatedSecrets)

\* the comparison is taken for a difference when the values are equal
NoChangeAddsAnyway ==
  /\ pc' = "addVersionDifferent"
  /\ UNCHANGED << idx, outputs, updatedSecrets, failures >>

\* updatedSecrets.push(secret.key), and on to the next entry
PushKey == NextSecret(secretsArray, idx + 1, Append(updatedSecrets, secret.key))

\* the entry is left without a push (already up to date)
NoChange == NextSecret(secretsArray, idx + 1, updatedSecrets)

\* the inputs are read and parsed, the entries validated, the loop entered
Start ==
  /\ pc = "start"
  /\ LET entries == ParseSecrets(secrets)
     IN  /\ secretsArray' = entries
         /\ IF HasEmptyKey(entries)
              THEN SetFailed(InvalidFormat)
              ELSE NextSecret(entries, 1, << >>)
  /\ UNCHANGED << secrets, remote, calls, warnings >>

\* await client.getSecret({ name: secretName }) and its catch
GetSecret ==
  /\ pc = "getSecret"
  /\ \E res \in GetSecretOutcomes(secret.key) :
       /\ calls' = Append(calls, Call("getSecret", idx, secret.key, NoPayload, res))
       /\ IF res.ok
            THEN pc' = "accessSecretVersion"
                 /\ UNCHANGED << idx, outputs, updatedSecrets, failures >>
            ELSE IF res.code = NOT_FOUND
              THEN pc' = "createSecret"
                   /\ UNCHANGED << idx, outputs, updatedSecrets, failures >>
              ELSE SetFailed(Message(
                     IF res.isError THEN "Error checking secret"
                     ELSE "An unknown error occurred while checking secret",
                     secret.key))
  /\ UNCHANGED << secrets, secretsArray, remote, warnings >>

\* the message of the catch around createSecret and the initial addSecretVersion
CreateFailure(res) ==
  Message(IF res.isError
            THEN "Error creating secret or adding initial version"
            ELSE "An unknown error occurred while creating secret",
          secret.key)

\* await client.createSecret({ parent, secretId: secret.key, ... })
CreateSecret ==
  /\ pc = "createSecret"
  /\ \E res \in CreateSecretOutcomes(secret.key) :
       /\ calls' = Append(calls, Call("createSecret", idx, secret.key, NoPayload, res))
       /\ IF res.ok
            THEN /\ remote' = WithSecret(remote, secret.key)
                 /\ pc' = "addInitialVersion"
                 /\ UNCHANGED << idx, outputs, updatedSecrets, failures >>
            ELSE /\ SetFailed(CreateFailure(res))
                 /\ UNCHANGED remote
  /\ UNCHANGED << secrets, secretsArray, warnings >>

\* the call carries the payload of the first entry, whatever the entry
AddSecretVersionOfFirstEntry(res) ==
  /\ calls' = Append(calls, Call("addSecretVersion", idx, secret.key,
                                 Payload(BufferFrom(secretsArray[1].value)), res))
  /\ remote' = IF res.ok
                 THEN WithVersion(remote, secret.key,
                                  BufferFrom(secretsArray[1].value))
                 ELSE remote

\* what an addSecretVersion call does to the log and, resolved, to the service
AddSecretVersion(res) ==
  /\ calls' = Append(calls, Call("addSecretVersion", idx, secret.key,
                                 Payload(BufferFrom(secret.value)), res))
  /\ remote' = IF res.ok
                 THEN WithVersion(remote, secret.key, BufferFrom(secret.value))
                 ELSE remote

\* await client.addSecretVersion(...) of the create path; push; continue
AddInitialVersion ==
  /\ pc = "addInitialVersion"
  /\ \E res \in AddSecretVersionOutcomes(secret.key) :
       /\ AddSecretVersion(res)
       /\ IF res.ok THEN PushKey ELSE SetFailed(CreateFailure(res))
  /\ UNCHANGED << secrets, secretsArray, warnings >>

\* versionResponse.payload?.data?.toString('utf8'): undefined without data
CurrentSecretData(payload) ==
  IF payload.present
    THEN [defined |-> TRUE, string |-> ToStringUtf8(payload.data)]
    ELSE [defined |-> FALSE, string |-> << >>]

\* the catch takes another code (14) for NOT_FOUND
AccessCatchWrongCode(res) ==
  IF res.code = 14
    THEN /\ warnings' = Append(warnings, Message(
                "Secret exists but failed to access latest version", secret.key))
         /\ pc' = "addVersionAfterNotFound"
         /\ UNCHANGED << idx, outputs, updatedSecrets, failures >>
    ELSE /\ SetFailed(Message("Error accessing/updating secret", secret.key))
         /\ UNCHANGED warnings

\* code 5 is as fatal as any other code
AccessCatchAlwaysFatal(res) ==
  /\ SetFailed(Message("Error accessing/updating secret", secret.key))
  /\ UNCHANGED warnings

\* the catch of the try around accessSecretVersion and the two addSecretVersion
\* calls that follow it: code 5 warns and goes on to add a version
AccessCatch(res) ==
  IF res.code = NOT_FOUND
    THEN /\ warnings' = Append(warnings, Message(
                "Secret exists but failed to access latest version", secret.key))
         /\ pc' = "addVersionAfterNotFound"
         /\ UNCHANGED << idx, outputs, updatedSecrets, failures >>
    ELSE /\ SetFailed(Message(
                IF res.isError THEN "Error accessing/updating secret"
                ELSE "An unknown error occurred while accessing/updating secret",
                secret.key))
         /\ UNCHANGED warnings

\* await client.accessSecretVersion({ name: .../versions/latest }) and the
\* comparison of the current data with the desired value
AccessSecretVersion ==
  /\ pc = "accessSecretVersion"
  /\ \E res \in AccessSecretVersionOutcomes(secret.key) :
       /\ calls' = Append(calls, Call("accessSecretVersion", idx, secret.key,
               IF res.ok THEN LatestPayload(remote, secret.key) ELSE NoPayload,
               res))
       /\ IF res.ok
            THEN LET current == CurrentSecretData(LatestPayload(remote, secret.key))
                 IN  IF ~current.defined
                       THEN /\ warnings' = Append(warnings, Message(
                                   "Could not retrieve current data for secret",
                                   secret.key))
                            /\ pc' = "addVersionNoData"
                            /\ UNCHANGED << idx, outputs, updatedSecrets, failures >>
                       ELSE IF current.string # secret.value
                         THEN /\ pc' = "addVersionDifferent"
                              /\ UNCHANGED << idx, outputs, updatedSecrets,
                                              failures, warnings >>
                         ELSE NoChange /\ UNCHANGED warnings
            ELSE AccessCatch(res)
  /\ UNCHANGED << secrets, secretsArray, remote >>

\* an addSecretVersion call inside the try of accessSecretVersion
AddVersionInTry ==
  \E res \in AddSecretVersionOutcomes(secret.key) :
    /\ AddSecretVersion(res)
    /\ IF res.ok THEN PushKey /\ UNCHANGED warnings ELSE AccessCatch(res)

\* await client.addSecretVersion(...) when the current data is undefined
AddVersionNoData ==
  /\ pc = "addVersionNoData"
  /\ AddVersionInTry
  /\ UNCHANGED << secrets, secretsArray >>

\* await client.addSecretVersion(...) when the current data differs
AddVersionDifferent ==
  /\ pc = "addVersionDifferent"
  /\ AddVersionInTry
  /\ UNCHANGED << secrets, secretsArray >>

\* await client.addSecretVersion(...) inside the catch, after code 5
AddVersionAfterNotFound ==
  /\ pc = "addVersionAfterNotFound"
  /\ \E res \in AddSecretVersionOutcomes(secret.key) :
       /\ AddSecretVersion(res)
       /\ IF res.ok
            THEN PushKey
            ELSE SetFailed(Message(
                   IF res.isError
                     THEN "Error adding version to secret after failing to access latest"
                     ELSE "An unknown error occurred while adding version to secret",
                   secret.key))
  /\ UNCHANGED << secrets, secretsArray, warnings >>

----------------------------------------------------------------------------
(* Specifications *)

\* the segments the inputs of the reconciliation are made of
Segments ==
  { << "a", "=", "x" >>,
    << "a", "=", "b" >>,
    << "b", "=", "x" >>,
    << " ", "a", " ", "=", " ", "x", " " >>,
    << "b" >>,
    << " ", "=", "x" >>,
    << " " >>,
    << "a", "=", "x", "=", "b" >> }

SegmentInputs ==
  {Join(segs, ",") : segs \in UNION {[1..m -> Segments] : m \in 0..MaxSegments}}

\* what a secret may hold before the run: no version, a version whose data
\* is "x", a version without data
InitialVersions == {<< >>, << Payload(BufferFrom(<< "x" >>)) >>, << NoPayload >>}

SecretIds == {<< "a" >>, << "b" >>}

InitialRemotes == UNION {[ids -> InitialVersions] : ids \in SUBSET SecretIds}

InitRun ==
  /\ secretsArray = << >>
  /\ pc = "start"
  /\ idx = 0
  /\ updatedSecrets = << >>
  /\ calls = << >>
  /\ outputs = << >>
  /\ failures = << >>
  /\ warnings = << >>

Init ==
  /\ secrets \in SegmentInputs
  /\ remote \in InitialRemotes
  /\ InitRun

Next ==
  \/ Start
  \/ GetSecret
  \/ CreateSecret
  \/ AddInitialVersion
  \/ AccessSecretVersion
  \/ AddVersionNoData
  \/ AddVersionDifferent
  \/ AddVersionAfterNotFound

Spec == Init /\ [][Next]_vars

\* the literal input of the spacing test, with one-letter keys and values
SpacedInput ==
  << " ", " ", "a", " ", "=", " ", "x", " ", " ", ",", " ", ",", ",", " ",
     "b", "=", "x", ",", " " >>

\* parsing alone, over every short input
InitParse ==
  /\ secrets \in StringsUpTo(Alphabet, MaxLen) \cup {SpacedInput}
  /\ remote = << >>
  /\ InitRun

NextParse == Start

SpecParse == InitParse /\ [][NextParse]_vars

----------------------------------------------------------------------------
(* Vocabulary of the properties *)

Entries == 1..Len(secretsArray)

Range(seq) == {seq[n] : n \in 1..Len(seq)}

\* positions in the call log of the calls of op issued for entry n
CallsFor(op, n) ==
  {j \in 1..Len(calls) : calls[j].op = op /\ calls[j].entry = n}

Resolved(j) == calls[j].code = 0

\* the loop has left entry n: it moved on, or the run ended in it
Finished(n) == n \in Entries /\ (idx > n \/ (pc = "done" /\ idx = n))

\* the run ended in failure while it was at entry n
FailedAt(n) == pc = "done" /\ idx = n /\ Len(failures) > 0

\* core.setOutput('updated_secrets', _) was called
Emitted == Len(outputs) > 0

\* key is in the emitted updated_secrets
Reported(key) == Emitted /\ key \in Range(outputs[1])

\* the payload an addSecretVersion call of entry n has to carry
Desired(n) == Payload(BufferFrom(secretsArray[n].value))

\* the existence check of entry n failed with code 5
GetNotFound(n) == \E j \in CallsFor("getSecret", n) : calls[j].code = NOT_FOUND

\* the latest version of entry n's secret was read and decoded to a string
AccessGot(n, j) ==
  /\ j \in CallsFor("accessSecretVersion", n)
  /\ Resolved(j)
  /\ calls[j].payload.present

\* ... equal to the desired value
AccessSame(n) == \E j \in 1..Len(calls) :
  AccessGot(n, j) /\ calls[j].payload = Desired(n)

\* ... different from the desired value
AccessDifferent(n) == \E j \in 1..Len(calls) :
  AccessGot(n, j) /\ calls[j].payload # Desired(n)

\* the access of the latest version of entry n's secret failed with code 5
AccessNotFound(n) ==
  \E j \in CallsFor("accessSecretVersion", n) : calls[j].code = NOT_FOUND

\* the keys of the entries with a resolved addSecretVersion call, in order
RECURSIVE KeysAddedFrom(_)
KeysAddedFrom(n) ==
  IF n > Len(secretsArray) THEN << >>
  ELSE (IF \E j \in CallsFor("addSecretVersion", n) : Resolved(j)
          THEN << secretsArray[n].key >> ELSE << >>) \o KeysAddedFrom(n + 1)

----------------------------------------------------------------------------
(* C1: an entry whose secret is not found *)

\* C1 as stated: once the run has ended, every entry whose getSecret failed
\* with code 5 has exactly one createSecret call followed by exactly one
\* addSecretVersion call carrying its desired value, no accessSecretVersion
\* call, and its key is in the emitted updated_secrets.
C1_AsStated ==
  pc = "done" =>
    \A n \in Entries : GetNotFound(n) =>
      /\ Cardinality(CallsFor("createSecret", n)) = 1
      /\ Cardinality(CallsFor("addSecretVersion", n)) = 1
      /\ \A c \in CallsFor("createSecret", n) :
           \A a \in CallsFor("addSecretVersion", n) :
             c < a /\ calls[a].payload = Desired(n)
      /\ CallsFor("accessSecretVersion", n) = {}
      /\ Reported(secretsArray[n].key)

\* C1 amended: for every entry whose getSecret failed with code 5, exactly
\* one createSecret call and no accessSecretVersion call are issued for the
\* entry; if createSecret resolves, exactly one addSecretVersion call carrying
\* the desired value follows it immediately, and none is issued otherwise; if
\* that call resolves too, the key is appended to updatedSecrets, and it is in
\* updated_secrets whenever that output is emitted; if either call fails the
\* run ends in failure at this entry and emits nothing.
C1_NotFoundCreatesThenAdds ==
  \A n \in Entries : (GetNotFound(n) /\ Finished(n)) =>
    LET creates == CallsFor("createSecret", n)
        adds == CallsFor("addSecretVersion", n)
    IN  /\ Cardinality(creates) = 1
        /\ CallsFor("accessSecretVersion", n) = {}
        /\ \A c \in creates :
             IF Resolved(c)
               THEN /\ adds = {c + 1}
                    /\ calls[c + 1].payload = Desired(n)
                    /\ IF Resolved(c + 1)
                         THEN /\ secretsArray[n].key \in Range(updatedSecrets)
                              /\ ~FailedAt(n)
                         ELSE FailedAt(n) /\ ~Emitted
               ELSE adds = {} /\ FailedAt(n) /\ ~Emitted
        /\ Emitted => Reported(secretsArray[n].key)

\* two entries were created, versioned and reported
C1_Witness ==
  /\ pc = "done"
  /\ Len(secretsArray) = 2
  /\ \A n \in Entries :
       /\ GetNotFound(n)
       /\ \E a \in CallsFor("addSecretVersion", n) : Resolved(a)
       /\ Reported(secretsArray[n].key)

----------------------------------------------------------------------------
(* C2: an entry whose secret is up to date *)

\* C2 as stated: once the run has ended, every entry whose latest version
\* decoded to the desired value has no createSecret and no addSecretVersion
\* call, and the run ended in success: updated_secrets was emitted and
\* setFailed was not called.
C2_AsStated ==
  pc = "done" =>
    \A n \in Entries : AccessSame(n) =>
      /\ CallsFor("createSecret", n) = {}
      /\ CallsFor("addSecretVersion", n) = {}
      /\ Emitted
      /\ failures = << >>

\* C2 amended: an entry whose latest version decodes to the desired value
\* gets no createSecret and no addSecretVersion call, pushes nothing
\* (updatedSecrets holds one key per entry with a resolved addSecretVersion
\* call, and this entry has none) and does not fail the run: the loop goes on
\* after it, and the run ends in success, emitting updated_secrets, unless
\* another entry fails fatally.
C2_UpToDateIsLeftAlone ==
  \A n \in Entries : AccessSame(n) =>
    /\ CallsFor("createSecret", n) = {}
    /\ CallsFor("addSecretVersion", n) = {}
    /\ updatedSecrets = KeysAddedFrom(1)
    /\ Finished(n) /\ ~FailedAt(n)
    /\ pc = "done" =>
         \/ Len(outputs) = 1 /\ outputs[1] = updatedSecrets /\ failures = << >>
         \/ outputs = << >> /\ Len(failures) = 1 /\ idx # n
    /\ (pc = "done" /\ \A m \in Entries : AccessSame(m)) =>
         outputs = << << >> >> /\ failures = << >>

\* two entries, both up to date: the empty list is emitted
C2_Witness ==
  /\ pc = "done"
  /\ Len(secretsArray) = 2
  /\ \A n \in Entries : AccessSame(n)
  /\ outputs = << << >> >>

----------------------------------------------------------------------------
(* C3: an entry whose secret holds another value *)

\* C3: once the loop has left an entry whose latest version decoded to a
\* value different from the desired one, exactly one addSecretVersion call
\* was issued for it, carrying the desired value, no createSecret call was
\* issued for it, and its key is in updated_secrets when that is emitted.
C3_AsStated ==
  \A n \in Entries : (AccessDifferent(n) /\ Finished(n)) =>
    /\ Cardinality(CallsFor("addSecretVersion", n)) = 1
    /\ \A a \in CallsFor("addSecretVersion", n) : calls[a].payload = Desired(n)
    /\ CallsFor("createSecret", n) = {}
    /\ Emitted => Reported(secretsArray[n].key)

----------------------------------------------------------------------------
(* C4: an entry whose secret has no accessible latest version *)

\* C4 as stated: once the run has ended, every entry whose accessSecretVersion
\* call failed with code 5 has exactly one addSecretVersion call, carrying the
\* desired value, and no createSecret call; its key is in the emitted
\* updated_secrets, unless that addSecretVersion call failed, and then the
\* run failed.
C4_AsStated ==
  pc = "done" =>
    \A n \in Entries : AccessNotFound(n) =>
      /\ Cardinality(CallsFor("addSecretVersion", n)) = 1
      /\ CallsFor("createSecret", n) = {}
      /\ \A a \in CallsFor("addSecretVersion", n) :
           /\ calls[a].payload = Desired(n)
           /\ IF Resolved(a)
                THEN Reported(secretsArray[n].key)
                ELSE Len(failures) > 0 /\ ~Emitted

\* C4 amended: for every entry whose accessSecretVersion call failed with
\* code 5, exactly one addSecretVersion call is issued for the entry, right
\* after it, carrying the desired value, and no createSecret call; if the
\* call resolves the key is appended to updatedSecrets, and it is in
\* updated_secrets whenever that output is emitted (it is not when a later
\* entry fails fatally); if the call fails, whatever its code, it is the last
\* remote call of the run, setFailed is called once, naming the key, and
\* nothing is emitted.
C4_NoLatestVersionAddsOne ==
  \A n \in Entries : (AccessNotFound(n) /\ Finished(n)) =>
    /\ CallsFor("createSecret", n) = {}
    /\ \A g \in CallsFor("accessSecretVersion", n) :
         /\ CallsFor("addSecretVersion", n) = {g + 1}
         /\ calls[g + 1].payload = Desired(n)
         /\ IF Resolved(g + 1)
              THEN /\ secretsArray[n].key \in Range(updatedSecrets)
                   /\ ~FailedAt(n)
                   /\ Emitted => Reported(secretsArray[n].key)
              ELSE /\ FailedAt(n)
                   /\ g + 1 = Len(calls)
                   /\ Len(failures) = 1
                   /\ failures[1].key = << secretsArray[n].key >>
                   /\ ~Emitted

\* a secret without accessible version got one and was reported
C4_Witness ==
  /\ pc = "done"
  /\ \E n \in Entries :
       /\ AccessNotFound(n)
       /\ \E a \in CallsFor("addSecretVersion", n) : Resolved(a)
       /\ Reported(secretsArray[n].key)

----------------------------------------------------------------------------
(* C5: an entry with an empty key *)

\* C5: when some parsed entry, at any position, has an empty key, the run
\* ends in the validation failure: setFailed is called once with the
\* invalid-format message, no client call is issued and updated_secrets is
\* not emitted.
C5_EmptyKeyFailsBeforeAnyCall ==
  (pc # "start" /\ \E n \in Entries : secretsArray[n].key = << >>) =>
    /\ pc = "done"
    /\ failures = << InvalidFormat >>
    /\ calls = << >>
    /\ outputs = << >>

\* the empty key comes second, after a valid entry
C5_Witness ==
  /\ pc = "done"
  /\ Len(secretsArray) = 2
  /\ secretsArray[1].key # << >>
  /\ secretsArray[2].key = << >>
  /\ failures = << InvalidFormat >>

----------------------------------------------------------------------------
(* C6, C7: the parsed entries, told from the positions of the raw input *)

Min(S) == CHOOSE p \in S : \A q \in S : p <= q

\* the positions around the segments of s: before it, its commas, after it
Boundaries(s) == {0, Len(s) + 1} \cup {p \in 1..Len(s) : s[p] = ","}

\* the boundary that ends the segment starting after boundary p
SegmentEnd(s, p) == Min({q \in Boundaries(s) : q > p})

\* the segment that starts after boundary p
SegmentAt(s, p) == SubSeq(s, p + 1, SegmentEnd(s, p) - 1)

\* the boundaries followed by a segment with a character that is no blank
NonBlankStarts(s) ==
  {p \in Boundaries(s) \ {Len(s) + 1} :
     \E q \in (p + 1)..(SegmentEnd(s, p) - 1) : s[q] # " "}

\* x is t without the blanks around it
IsTrimOf(x, t) ==
  /\ Len(x) > 0 => x[1] # " " /\ x[Len(x)] # " "
  /\ \E first \in 1..(Len(t) + 1) : \E last \in 0..Len(t) :
       /\ x = SubSeq(t, first, last)
       /\ \A q \in 1..Len(t) : (q < first \/ q > last) => t[q] = " "

EqualSigns(t) == {p \in 1..Len(t) : t[p] = "="}

\* the text of t before its first '=' (all of t when it has none)
BeforeFirstEqual(t) ==
  IF EqualSigns(t) = {} THEN t ELSE SubSeq(t, 1, Min(EqualSigns(t)) - 1)

\* the text of t after its first '=' (which it has)
AfterFirstEqual(t) == SubSeq(t, Min(EqualSigns(t)) + 1, Len(t))

\* the position in secretsArray of the entry of the segment after boundary p
EntryOf(s, p) == 1 + Cardinality({q \in NonBlankStarts(s) : q < p})

\* C6: the parsed list has one entry per comma-separated segment that is not
\* blank, in the order of the segments; the key of an entry is the segment's
\* text before its first '=' without the blanks around it, its value has no
\* blanks around it, is empty when the segment has no '=' and is the trimmed
\* text after the '=' when it has one; blank segments yield no entry.
C6_OneTrimmedEntryPerSegment ==
  pc # "start" =>
    /\ Len(secretsArray) = Cardinality(NonBlankStarts(secrets))
    /\ \A p \in NonBlankStarts(secrets) :
         LET seg == SegmentAt(secrets, p)
             entry == secretsArray[EntryOf(secrets, p)]
         IN  /\ IsTrimOf(entry.key, BeforeFirstEqual(seg))
             /\ IsTrimOf(entry.value, entry.value)
             /\ EqualSigns(seg) = {} => entry.value = << >>
             /\ Cardinality(EqualSigns(seg)) = 1 =>
                  IsTrimOf(entry.value, AfterFirstEqual(seg))

\* the input of the spacing test parses to the two entries a=x and b=x
C6_Witness ==
  /\ pc # "start"
  /\ secrets = SpacedInput
  /\ secretsArray = << [key |-> << "a" >>, value |-> << "x" >>],
                       [key |-> << "b" >>, value |-> << "x" >>] >>

\* C7: a segment is split on its first '=' only: the key of its entry is the
\* trimmed text before the first '=', the value is all the text after the
\* first '=', trimmed, and the empty string when the segment has no '='
\* (stated of the inputs that pass the validation of the keys).
C7_AsStated ==
  (pc # "start" /\ failures = << >>) =>
    \A p \in NonBlankStarts(secrets) :
      LET seg == SegmentAt(secrets, p)
          entry == secretsArray[EntryOf(secrets, p)]
      IN  /\ IsTrimOf(entry.key, BeforeFirstEqual(seg))
          /\ IF EqualSigns(seg) = {}
               THEN entry.value = << >>
               ELSE IsTrimOf(entry.value, AfterFirstEqual(seg))

----------------------------------------------------------------------------
(* C8, C9: the keys written and reported *)

NoDuplicates(seq) ==
  \A m \in 1..Len(seq) : \A n \in 1..Len(seq) : seq[m] = seq[n] => m = n

\* the keys a createSecret or an addSecretVersion call resolved for
KeysWritten ==
  {calls[j].key : j \in {w \in 1..Len(calls) :
      calls[w].op \in {"createSecret", "addSecretVersion"} /\ Resolved(w)}}

\* C8: the emitted updated_secrets holds exactly the keys a createSecret or
\* an addSecretVersion call resolved for, in the order of the entries, no key
\* twice, and no key that was found up to date and not written.
C8_AsStated ==
  Emitted =>
    /\ Range(outputs[1]) = KeysWritten
    /\ outputs[1] = KeysAddedFrom(1)
    /\ NoDuplicates(outputs[1])
    /\ \A n \in Entries :
         (AccessSame(n) /\ secretsArray[n].key \notin KeysWritten) =>
           secretsArray[n].key \notin Range(outputs[1])

\* C9: at most one addSecretVersion call resolves for a key in a run, and
\* one resolves only for an entry whose secret was absent, had no readable
\* latest version, or held a value different from the desired one.
C9_AsStated ==
  /\ \A j \in 1..Len(calls) : \A k \in 1..Len(calls) :
       ( /\ calls[j].op = "addSecretVersion" /\ Resolved(j)
         /\ calls[k].op = "addSecretVersion" /\ Resolved(k)
         /\ calls[j].key = calls[k].key ) => j = k
  /\ \A j \in 1..Len(calls) :
       (calls[j].op = "addSecretVersion" /\ Resolved(j)) =>
         LET n == calls[j].entry
         IN  \/ GetNotFound(n)
             \/ AccessNotFound(n)
             \/ AccessDifferent(n)
             \/ \E g \in CallsFor("accessSecretVersion", n) :
                  Resolved(g) /\ ~calls[g].payload.present

----------------------------------------------------------------------------
(* C10: fatal failures *)

\* call j failed the way the claim calls fatal: getSecret or
\* accessSecretVersion with a code other than 5, createSecret or
\* addSecretVersion with any code
FatalFailure(j) ==
  /\ ~Resolved(j)
  /\ calls[j].op \in {"getSecret", "accessSecretVersion"} => calls[j].code # NOT_FOUND

\* C10: a remote call that fails fatally is the last remote call of the run:
\* the run is over, setFailed was called exactly once, with a message naming
\* the key of the entry of that call, and updated_secrets was not emitted.
C10_AsStated ==
  \A j \in 1..Len(calls) : FatalFailure(j) =>
    /\ j = Len(calls)
    /\ pc = "done"
    /\ Len(failures) = 1
    /\ failures[1].key = << calls[j].key >>
    /\ ~Emitted

----------------------------------------------------------------------------
(* C11: NOT_FOUND *)

\* setFailed was called for a remote call (not by the validation of the keys)
RemoteFailureSurfaced == failures # << >> /\ failures # << InvalidFormat >>

\* C11 as stated: a run in which every remote call that failed, whichever of
\* getSecret, createSecret, addSecretVersion and accessSecretVersion it is,
\* failed with code 5 does not call setFailed for a remote call.
C11_AsStated ==
  (\A j \in 1..Len(calls) : ~Resolved(j) => calls[j].code = NOT_FOUND) =>
    ~RemoteFailureSurfaced

\* C11 amended: a NOT_FOUND (code 5) error returned by getSecret or by
\* accessSecretVersion is never surfaced as a failure: a run in which the
\* only remote errors are code-5 rejections of getSecret and
\* accessSecretVersion calls does not call setFailed for a remote call (a
\* code-5 rejection of createSecret, or of the addSecretVersion call of the
\* create path or of the catch, is fatal like any other error).
C11_NotFoundOfReadsIsNotSurfaced ==
  (\A j \in 1..Len(calls) : ~Resolved(j) =>
      /\ calls[j].code = NOT_FOUND
      /\ calls[j].op \in {"getSecret", "accessSecretVersion"}) =>
    ~RemoteFailureSurfaced

\* a run met NOT_FOUND from getSecret and from accessSecretVersion, no other
\* error, and ended by emitting updated_secrets
C11_Witness ==
  /\ pc = "done"
  /\ Emitted
  /\ failures = << >>
  /\ \E j \in 1..Len(calls) :
       calls[j].op = "getSecret" /\ calls[j].code = NOT_FOUND
  /\ \E j \in 1..Len(calls) :
       calls[j].op = "accessSecretVersion" /\ calls[j].code = NOT_FOUND
  /\ \A j \in 1..Len(calls) : ~Resolved(j) => calls[j].code = NOT_FOUND

----------------------------------------------------------------------------
(* C12: no retry *)

\* C12: once a call of an operation has failed for an entry, whatever its
\* code, no second call of the same operation is issued for that entry.
C12_AsStated ==
  \A j \in 1..Len(calls) : \A k \in 1..Len(calls) :
    ( /\ j < k
      /\ ~Resolved(j)
      /\ calls[j].op = calls[k].op ) => calls[j].entry # calls[k].entry

----------------------------------------------------------------------------
(* C13: convergence *)

\* the position of the last entry that names the key of entry n
LastEntryOf(n) ==
  CHOOSE m \in Entries :
    /\ secretsArray[m].key = secretsArray[n].key
    /\ \A q \in Entries : secretsArray[q].key = secretsArray[n].key => q <= m

\* C13: whenever the run has emitted updated_secrets, every key of the parsed
\* list exists in Secret Manager, has a version, and the payload of its
\* latest version is the desired value of the last entry that names the key.
C13_EmittedRunConverged ==
  Emitted =>
    \A n \in Entries :
      LET key == secretsArray[n].key
      IN  /\ SecretExistsIn(remote, key)
          /\ Len(remote[key]) > 0
          /\ LatestPayload(remote, key) = Desired(LastEntryOf(n))

\* a key named twice with two values ends with the second; both were written
C13_Witness ==
  /\ Emitted
  /\ Len(secretsArray) = 2
  /\ secretsArray[1].key = secretsArray[2].key
  /\ secretsArray[1].value # secretsArray[2].value
  /\ \E j \in CallsFor("createSecret", 1) : Resolved(j)
  /\ \E j \in CallsFor("addSecretVersion", 2) : Resolved(j)
  /\ LatestPayload(remote, secretsArray[2].key) = Desired(2)

====
